---- MODULE Spec2Model ----
(***************************************************************************)
(* Model of reminder-tui: the file-backed entity store (package storage),  *)
(* the reminder service (package reminder) and the task/note operations    *)
(* (package models) they use.                                              *)
(*                                                                         *)
(* Time is counted in whole hours.  A durable file is a record             *)
(*   [st |-> "missing" | "partial" | "ok", recs |-> <<JSON records>>]      *)
(* where "partial" is a document that was truncated by an open for writing *)
(* and not (yet) completely rewritten; it does not parse.                  *)
(***************************************************************************)
EXTENDS Integers, Sequences, FiniteSets, TLC

VARIABLES
    tasksFile,      \* tasks.json (FileStorage.tasksFilePath)
    notesFile,      \* notes.json (FileStorage.notesFilePath)
    mutex,          \* FileStorage.mutex: [writer, readers]
    pc,             \* per goroutine: position inside its current store call
    opn,            \* per goroutine: the store method it is executing
    ret,            \* what the store method that returned last returned
    lastSaved,      \* history: per identifier, the record of the last store
                    \* call on it when that call was a successful save
    workload,       \* which collections the callers of this run work on
    clock,          \* the wall clock, in hours
    lpc,            \* per reminderLoop goroutine: its position
    now,            \* per loop: checkReminders' local `now`
    due,            \* per loop: checkReminders' local `tasks`, the part of
                    \* the range loop that is still to run (head = current)
    sentReminders,  \* ReminderService.sentReminders
    lastFired,      \* history: per task id, `now` of the tick that last
                    \* invoked the Notifier for it
    notifyErr,      \* history: what the Notifier returned last
    stopChan,       \* ReminderService.stopChan: "open" or "closed"
    wg,             \* ReminderService.wg: its counter
    mainpc,         \* the goroutine that calls Start() and Stop()
    stopMidTick,    \* history: Stop() was called while a tick was running
    ticksAfterStop, \* history: per loop, the ticks it started after the
                    \* channel was closed (counted up to MaxTicks)
    mem,            \* a Task in memory, the receiver of the models' methods
    lastOp,         \* history: the method that was called on it last
    call,           \* the CreateTaskWithReminder call that is running or ran
                    \* last: its caller and arguments
    clientLast      \* history: per task id, the last SaveTask or DeleteTask
                    \* of the interactive client that changed the store

storeVars == <<tasksFile, notesFile, mutex, pc, opn, ret, lastSaved, workload>>
tickVars  == <<clock, lpc, now, due, sentReminders, lastFired,
              notifyErr>>
lifeVars  == <<stopChan, wg, mainpc, stopMidTick, ticksAfterStop>>
taskVars  == <<mem, lastOp, call, clientLast>>
schedVars == <<tickVars, lifeVars, taskVars>>
vars == <<storeVars, schedVars>>

----------------------------------------------------------------------------
(* Bounds and program constants *)

MaxTime == 2
\* Ticks after the stop signal are counted up to this number.
MaxTicks == 2

TaskStatusPending    == 0
TaskStatusInProgress == 1
TaskStatusCompleted  == 2
TaskStatusOverdue    == 3

Clients == {"c1", "c2"}
LoopIds == {"L1", "L2"}
Procs   == Clients \cup LoopIds

TaskIds == {"t1", "t2"}
NoteIds == {"n1", "n2"}
Times   == 0 .. MaxTime

None == "none"

----------------------------------------------------------------------------
(* Go values *)

\* A Go slice of strings: nil, or a (possibly empty) backing array.
NilSlice == [isNil |-> TRUE, elems |-> <<>>]
MakeSlice(s) == [isNil |-> FALSE, elems |-> s]

\* The records a caller may hand to the store.  A run in which the callers
\* use both collections ("both") takes them from the smaller sets.
ClientStatuses == {TaskStatusPending, TaskStatusCompleted}
ClientTasks(w) ==
    IF w = "both"
    THEN [id : {"t1"}, status : {TaskStatusPending}, dueDate : {1},
          reminderAt : {0}, tags : {NilSlice}]
    ELSE IF w = "sched"
    THEN [id : {"t1"}, status : ClientStatuses, dueDate : {1},
          reminderAt : {0}, tags : {NilSlice}]
    ELSE [id : TaskIds, status : ClientStatuses, dueDate : 1 .. MaxTime,
          reminderAt : {0}, tags : {NilSlice, MakeSlice(<<>>)}]
ClientNotes(w) ==
    IF w = "both"
    THEN [id : {"n1"}, isCompleted : {FALSE}, tags : {NilSlice}]
    ELSE [id : NoteIds, isCompleted : BOOLEAN,
          tags : {NilSlice, MakeSlice(<<>>)}]
ClientTimes(w) == IF w = "both" THEN {1} ELSE Times

----------------------------------------------------------------------------
(* encoding/json of the models' struct tags *)

MarshalTask(t) ==
    LET base == [id |-> t.id, status |-> t.status, due_date |-> t.dueDate,
                 reminder_at |-> t.reminderAt]
    IN  IF Len(t.tags.elems) = 0
        THEN base                                   \* `json:"tags,omitempty"`
        ELSE [id |-> t.id, status |-> t.status, due_date |-> t.dueDate,
              reminder_at |-> t.reminderAt, tags |-> t.tags.elems]

UnmarshalTask(j) ==
    [id |-> j.id, status |-> j.status, dueDate |-> j.due_date,
     reminderAt |-> j.reminder_at,
     tags |-> IF "tags" \in DOMAIN j THEN MakeSlice(j.tags) ELSE NilSlice]

MarshalNote(n) ==
    IF Len(n.tags.elems) = 0
    THEN [id |-> n.id, is_completed |-> n.isCompleted]
    ELSE [id |-> n.id, is_completed |-> n.isCompleted, tags |-> n.tags.elems]

UnmarshalNote(j) ==
    [id |-> j.id, isCompleted |-> j.is_completed,
     tags |-> IF "tags" \in DOMAIN j THEN MakeSlice(j.tags) ELSE NilSlice]

MapSeq(s, Op(_)) == [i \in 1 .. Len(s) |-> Op(s[i])]

----------------------------------------------------------------------------
(* The durable files *)

Missing == [st |-> "missing", recs |-> <<>>]
Partial == [st |-> "partial", recs |-> <<>>]
Doc(js) == [st |-> "ok", recs |-> js]

WriteOutcomes == {"ok", "openfail", "writefail"}

\* os.WriteFile(name, data, 0644): open with O_TRUNC, write, close.
\* openfail: the open fails and the file is untouched; writefail: the file
\* was truncated by the open and the write did not complete.
WriteFile(file, js, o) ==
    CASE o = "ok"        -> [err |-> None,    file |-> Doc(js)]
      [] o = "openfail"  -> [err |-> "write", file |-> file]
      [] o = "writefail" -> [err |-> "write", file |-> Partial]

saveTasks(file, tasks, o) == WriteFile(file, MapSeq(tasks, MarshalTask), o)
saveNotes(file, notes, o) == WriteFile(file, MapSeq(notes, MarshalNote), o)

\* os.ReadFile + json.Unmarshal of a file that exists.
readTasks(file) ==
    IF file.st = "ok"
    THEN [err |-> None, recs |-> MapSeq(file.recs, UnmarshalTask)]
    ELSE [err |-> "parse", recs |-> <<>>]
readNotes(file) ==
    IF file.st = "ok"
    THEN [err |-> None, recs |-> MapSeq(file.recs, UnmarshalNote)]
    ELSE [err |-> "parse", recs |-> <<>>]

\* loadTasks/loadNotes run in one piece (the caller holds the write lock, so
\* nothing can run between its steps): [err, recs, file].
loadTasks(file, o) ==
    IF file.st = "missing"
    THEN LET w == saveTasks(file, <<>>, o)
         IN  [err |-> w.err, recs |-> <<>>, file |-> w.file]
    ELSE LET r == readTasks(file)
         IN  [err |-> r.err, recs |-> r.recs, file |-> file]
loadNotes(file, o) ==
    IF file.st = "missing"
    THEN LET w == saveNotes(file, <<>>, o)
         IN  [err |-> w.err, recs |-> <<>>, file |-> w.file]
    ELSE LET r == readNotes(file)
         IN  [err |-> r.err, recs |-> r.recs, file |-> file]

----------------------------------------------------------------------------
(* The bodies of the store methods, on the loaded collection *)

\* Index of the first record with this id, 0 when there is none.
RECURSIVE IndexFrom(_, _, _)
IndexFrom(recs, id, i) ==
    IF i > Len(recs) THEN 0
    ELSE IF recs[i].id = id THEN i
    ELSE IndexFrom(recs, id, i + 1)
IndexOf(recs, id) == IndexFrom(recs, id, 1)

\* A variant that always appends.
UpsertAppend(recs, rec) == Append(recs, rec)

\* SaveTask/SaveNote lines 181-192, 251-262: replace in place or append.
Upsert(recs, rec) ==
    LET i == IndexOf(recs, rec.id)
    IN  IF i # 0 THEN [recs EXCEPT ![i] = rec] ELSE Append(recs, rec)

\* A variant that cuts the collection at the record.
RemoveFrom(recs, i) == SubSeq(recs, 1, i - 1)

\* append(s[:i], s[i+1:]...)
RemoveAt(recs, i) ==
    [k \in 1 .. Len(recs) - 1 |-> IF k < i THEN recs[k] ELSE recs[k + 1]]

\* SaveTask with the write lock held: [err, file].
SaveTaskBody(file, task, o1, o2) ==
    LET ld == loadTasks(file, o1)
    IN  IF ld.err # None THEN [err |-> ld.err, file |-> ld.file]
        ELSE saveTasks(ld.file, Upsert(ld.recs, task), o2)

SaveNoteBody(file, note, o1, o2) ==
    LET ld == loadNotes(file, o1)
    IN  IF ld.err # None THEN [err |-> ld.err, file |-> ld.file]
        ELSE saveNotes(ld.file, Upsert(ld.recs, note), o2)

DeleteTaskBody(file, id, o1, o2) ==
    LET ld == loadTasks(file, o1)
        i  == IndexOf(ld.recs, id)
    IN  IF ld.err # None THEN [err |-> ld.err, file |-> ld.file]
        ELSE IF i # 0 THEN saveTasks(ld.file, RemoveAt(ld.recs, i), o2)
        ELSE [err |-> "notfound", file |-> ld.file]

DeleteNoteBody(file, id, o1, o2) ==
    LET ld == loadNotes(file, o1)
        i  == IndexOf(ld.recs, id)
    IN  IF ld.err # None THEN [err |-> ld.err, file |-> ld.file]
        ELSE IF i # 0 THEN saveNotes(ld.file, RemoveAt(ld.recs, i), o2)
        ELSE [err |-> "notfound", file |-> ld.file]

\* GetTask/GetNote lines 205-210, 275-280.
GetBody(recs, id) ==
    LET i == IndexOf(recs, id)
    IN  IF i # 0 THEN [err |-> None, val |-> <<recs[i]>>]
        ELSE [err |-> "notfound", val |-> <<>>]

\* GetTasksDueBefore lines 318-324.
RECURSIVE DueBeforeFrom(_, _, _)
DueBeforeFrom(tasks, t, i) ==
    IF i > Len(tasks) THEN <<>>
    ELSE IF tasks[i].dueDate < t /\ tasks[i].status # TaskStatusCompleted
    THEN <<tasks[i]>> \o DueBeforeFrom(tasks, t, i + 1)
    ELSE DueBeforeFrom(tasks, t, i + 1)
\* A variant that does not look at the status.
DueBeforeAnyStatus(tasks, t) == SelectSeq(tasks, LAMBDA x : x.dueDate < t)
DueBefore(tasks, t) == DueBeforeFrom(tasks, t, 1)

\* GetTasksWithRemindersBy lines 334-340.
RECURSIVE RemindersByFrom(_, _, _)
RemindersByFrom(tasks, t, i) ==
    IF i > Len(tasks) THEN <<>>
    ELSE IF tasks[i].reminderAt < t /\ tasks[i].status # TaskStatusCompleted
    THEN <<tasks[i]>> \o RemindersByFrom(tasks, t, i + 1)
    ELSE RemindersByFrom(tasks, t, i + 1)
RemindersBy(tasks, t) == RemindersByFrom(tasks, t, 1)

----------------------------------------------------------------------------
(* The store's lock and the calls of its methods *)

NoteOps  == {"SaveNote", "DeleteNote", "GetNote", "GetAllNotes"}
TaskOps  == {"SaveTask", "DeleteTask", "GetTask", "GetAllTasks",
             "GetTasksDueBefore", "GetTasksWithRemindersBy"}
WriteOps == {"SaveNote", "DeleteNote", "SaveTask", "DeleteTask"}
ReadOps  == (NoteOps \cup TaskOps) \ WriteOps

NoRet == [op |-> None, arg |-> <<>>, err |-> None, val |-> <<>>]

\* sync.RWMutex
CanLock  == mutex.writer = None /\ mutex.readers = {}
\* A variant in which a reader does not wait for the writer.
CanRLockAlways == TRUE
CanRLock == mutex.writer = None

FileOf(op) == IF op \in NoteOps THEN notesFile ELSE tasksFile

\* No store method is running.
Quiet ==
    /\ mutex = [writer |-> None, readers |-> {}]
    /\ pc = [p \in Procs |-> "idle"]
    /\ opn = [p \in Procs |-> None]
    /\ ret = NoRet
    /\ lastSaved = [id \in TaskIds \cup NoteIds |-> <<>>]

\* NewFileStorage on a data directory without files.
StoreInit ==
    /\ tasksFile = Missing
    /\ notesFile = Missing
    /\ Quiet

\* s.mutex.Lock() at the head of a writing method.
Lock(p, op) ==
    /\ pc[p] = "idle"
    /\ op \in WriteOps
    /\ CanLock
    /\ mutex' = [mutex EXCEPT !.writer = p]
    /\ pc' = [pc EXCEPT ![p] = "locked"]
    /\ opn' = [opn EXCEPT ![p] = op]
    /\ ret' = NoRet
    /\ UNCHANGED <<tasksFile, notesFile, lastSaved, workload>>

\* s.mutex.RLock() at the head of a reading method.
RLock(p, op) ==
    /\ pc[p] = "idle"
    /\ op \in ReadOps
    /\ CanRLock
    /\ mutex' = [mutex EXCEPT !.readers = @ \cup {p}]
    /\ pc' = [pc EXCEPT ![p] = "rlocked"]
    /\ opn' = [opn EXCEPT ![p] = op]
    /\ ret' = NoRet
    /\ UNCHANGED <<tasksFile, notesFile, lastSaved, workload>>

\* The deferred Unlock/RUnlock and the return of the method.
Return(p, arg, err, val) ==
    /\ mutex' = [writer |-> IF mutex.writer = p THEN None ELSE mutex.writer,
                 readers |-> mutex.readers \ {p}]
    /\ pc' = [pc EXCEPT ![p] = "idle"]
    /\ opn' = [opn EXCEPT ![p] = None]
    /\ ret' = [op |-> opn[p], arg |-> arg, err |-> err, val |-> val]

SetFile(op, file) ==
    IF op \in NoteOps
    THEN notesFile' = file /\ UNCHANGED tasksFile
    ELSE tasksFile' = file /\ UNCHANGED notesFile

(* loadTasks/loadNotes under the read lock.  Readers run side by side, so   *)
(* the steps of a load that finds no file are separate actions.             *)

\* os.Stat reports that the file does not exist.
StatMissing(p) ==
    /\ pc[p] = "rlocked"
    /\ FileOf(opn[p]).st = "missing"
    /\ pc' = [pc EXCEPT ![p] = "init"]
    /\ UNCHANGED <<tasksFile, notesFile, mutex, opn, ret, lastSaved, workload>>

\* saveTasks/saveNotes of the empty container: os.WriteFile opens the file
\* (creating or truncating it).
InitOpen(p) ==
    /\ pc[p] = "init"
    /\ SetFile(opn[p], Partial)
    /\ pc' = [pc EXCEPT ![p] = "writing"]
    /\ UNCHANGED <<mutex, opn, ret, lastSaved, workload>>

\* What the load of a reading method hands to it in the step in which the
\* method returns, with the file that step leaves: [err, recs, file].
\*  - the file exists: os.ReadFile and json.Unmarshal;
\*  - the open of the empty container fails;
\*  - the write of the empty container completes, or fails and leaves the
\*    file as it is at that moment.
LoadUnderRLock(p) ==
    LET file == FileOf(opn[p])
    IN  CASE pc[p] = "rlocked" /\ file.st # "missing" ->
               {[err |-> r.err, recs |-> r.recs, file |-> file] :
                    r \in {IF opn[p] \in NoteOps THEN readNotes(file)
                                                 ELSE readTasks(file)}}
          [] pc[p] = "init" ->
               {[err |-> "write", recs |-> <<>>, file |-> file]}
          [] pc[p] = "writing" ->
               {[err |-> None, recs |-> <<>>, file |-> Doc(<<>>)],
                [err |-> "write", recs |-> <<>>, file |-> file]}
          [] OTHER -> {}

(* The store methods *)

Touch(id, rec) == lastSaved' = [lastSaved EXCEPT ![id] = rec]

SaveTask(p, task) ==
    /\ pc[p] = "locked" /\ opn[p] = "SaveTask"
    /\ \E o1, o2 \in WriteOutcomes :
         LET r == SaveTaskBody(tasksFile, task, o1, o2)
         IN  /\ tasksFile' = r.file
             /\ Return(p, <<task>>, r.err, <<>>)
             /\ Touch(task.id, IF r.err = None THEN <<task>> ELSE <<>>)
    /\ UNCHANGED <<notesFile, workload>>

SaveNote(p, note) ==
    /\ pc[p] = "locked" /\ opn[p] = "SaveNote"
    /\ \E o1, o2 \in WriteOutcomes :
         LET r == SaveNoteBody(notesFile, note, o1, o2)
         IN  /\ notesFile' = r.file
             /\ Return(p, <<note>>, r.err, <<>>)
             /\ Touch(note.id, IF r.err = None THEN <<note>> ELSE <<>>)
    /\ UNCHANGED <<tasksFile, workload>>

DeleteTask(p, id) ==
    /\ pc[p] = "locked" /\ opn[p] = "DeleteTask"
    /\ \E o1, o2 \in WriteOutcomes :
         LET r == DeleteTaskBody(tasksFile, id, o1, o2)
         IN  /\ tasksFile' = r.file
             /\ Return(p, <<id>>, r.err, <<>>)
    /\ Touch(id, <<>>)
    /\ UNCHANGED <<notesFile, workload>>

DeleteNote(p, id) ==
    /\ pc[p] = "locked" /\ opn[p] = "DeleteNote"
    /\ \E o1, o2 \in WriteOutcomes :
         LET r == DeleteNoteBody(notesFile, id, o1, o2)
         IN  /\ notesFile' = r.file
             /\ Return(p, <<id>>, r.err, <<>>)
    /\ Touch(id, <<>>)
    /\ UNCHANGED <<tasksFile, workload>>

GetTask(p, id) ==
    /\ opn[p] = "GetTask"
    /\ \E ld \in LoadUnderRLock(p) :
         /\ tasksFile' = ld.file
         /\ IF ld.err # None THEN Return(p, <<id>>, ld.err, <<>>)
            ELSE LET r == GetBody(ld.recs, id)
                 IN  Return(p, <<id>>, r.err, r.val)
    /\ UNCHANGED <<notesFile, lastSaved, workload>>

GetNote(p, id) ==
    /\ opn[p] = "GetNote"
    /\ \E ld \in LoadUnderRLock(p) :
         /\ notesFile' = ld.file
         /\ IF ld.err # None THEN Return(p, <<id>>, ld.err, <<>>)
            ELSE LET r == GetBody(ld.recs, id)
                 IN  Return(p, <<id>>, r.err, r.val)
    /\ UNCHANGED <<tasksFile, lastSaved, workload>>

GetAllTasks(p) ==
    /\ opn[p] = "GetAllTasks"
    /\ \E ld \in LoadUnderRLock(p) :
         /\ tasksFile' = ld.file
         /\ Return(p, <<>>, ld.err, ld.recs)
    /\ UNCHANGED <<notesFile, lastSaved, workload>>

GetAllNotes(p) ==
    /\ opn[p] = "GetAllNotes"
    /\ \E ld \in LoadUnderRLock(p) :
         /\ notesFile' = ld.file
         /\ Return(p, <<>>, ld.err, ld.recs)
    /\ UNCHANGED <<tasksFile, lastSaved, workload>>

GetTasksDueBefore(p, t) ==
    /\ opn[p] = "GetTasksDueBefore"
    /\ \E ld \in LoadUnderRLock(p) :
         /\ tasksFile' = ld.file
         /\ IF ld.err # None THEN Return(p, <<t>>, ld.err, <<>>)
            ELSE Return(p, <<t>>, None, DueBefore(ld.recs, t))
    /\ UNCHANGED <<notesFile, lastSaved, workload>>

GetTasksWithRemindersBy(p, t) ==
    /\ opn[p] = "GetTasksWithRemindersBy"
    /\ \E ld \in LoadUnderRLock(p) :
         /\ tasksFile' = ld.file
         /\ IF ld.err # None THEN Return(p, <<t>>, ld.err, <<>>)
            ELSE Return(p, <<t>>, None, RemindersBy(ld.recs, t))
    /\ UNCHANGED <<notesFile, lastSaved, workload>>

----------------------------------------------------------------------------
(* package models: the task status operations *)

\* A variant for which a task is overdue at its due date already.
IsOverDueAtDue(t, tnow) == tnow >= t.dueDate /\ t.status # TaskStatusCompleted

\* Task.IsOverDue, with the value time.Now() returns.
IsOverDue(t, tnow) == tnow > t.dueDate /\ t.status # TaskStatusCompleted

\* A variant without the early return for a Completed task.
UpdateStatusUnguarded(t, tnow) ==
    IF tnow > t.dueDate THEN [t EXCEPT !.status = TaskStatusOverdue] ELSE t

\* Task.UpdateStatus
UpdateStatus(t, tnow) ==
    IF t.status = TaskStatusCompleted THEN t
    ELSE IF IsOverDue(t, tnow) THEN [t EXCEPT !.status = TaskStatusOverdue]
    ELSE t

\* Task.MarkInProgress (UpdatedAt is not modelled)
MarkInProgress(t) == [t EXCEPT !.status = TaskStatusCompleted]

\* Task.Complete
Complete(t) == [t EXCEPT !.status = TaskStatusCompleted]

\* NotesApp.Update, key "c" on the selected task
ToggleComplete(t) ==
    IF t.status = TaskStatusCompleted
    THEN [t EXCEPT !.status = TaskStatusPending]
    ELSE Complete(t)

----------------------------------------------------------------------------
(* package reminder: ReminderService *)

\* 6*time.Hour and 24*time.Hour, in hours
RenotifyWindow == 6
ExpiryWindow == 24

\* The instants at which the clock is read: around the reminder time 0 and
\* the due time 1 of the callers' tasks, and at the two windows' edges after
\* the first instant at which a reminder can fire.
Instants ==
    {0, 1, 2, 1 + RenotifyWindow, 2 + RenotifyWindow,
     1 + ExpiryWindow, 2 + ExpiryWindow}

EmptyMap == [id \in {} |-> 0]
\* A variant that stores nothing.
MapKeep(m, k, v) == m

MapPut(m, k, v) == [x \in DOMAIN m \cup {k} |-> IF x = k THEN v ELSE m[x]]

\* A variant that fires again at the edge of the window.
ShouldSendAtEdge(m, id, tnow) ==
    id \notin DOMAIN m \/ tnow - m[id] >= RenotifyWindow

\* checkReminders line 80
ShouldSend(m, id, tnow) == id \notin DOMAIN m \/ tnow - m[id] > RenotifyWindow

\* checkReminders lines 95-99
\* A variant that also removes an entry that is exactly as old as the window.
SweepAtEdge(m, tnow) ==
    LET keep == {id \in DOMAIN m : ~(tnow - m[id] >= ExpiryWindow)}
    IN  [id \in keep |-> m[id]]

Sweep(m, tnow) ==
    LET keep == {id \in DOMAIN m : ~(tnow - m[id] > ExpiryWindow)}
    IN  [id \in keep |-> m[id]]

Alive == mainpc # "panic"
InTick(l) == lpc[l] \notin {"off", "select", "exited"}

\* NewReminderService
ServiceInit ==
    /\ lpc = [l \in LoopIds |-> "off"]
    /\ now = [l \in LoopIds |-> 0]
    /\ due = [l \in LoopIds |-> <<>>]
    /\ sentReminders = EmptyMap
    /\ lastFired = EmptyMap
    /\ notifyErr = None
    /\ stopChan = "open"
    /\ wg = 0
    /\ mainpc = "new"
    /\ stopMidTick = FALSE
    /\ ticksAfterStop = [l \in LoopIds |-> 0]

\* No Task is held in memory.
NoClientOp == [op |-> None, rec |-> <<>>]
NoTask ==
    /\ mem = <<>> /\ lastOp = None /\ call = <<>>
    /\ clientLast = [id \in TaskIds |-> NoClientOp]

SchedInit == clock = 0 /\ ServiceInit /\ NoTask

\* Time passes.
Advance ==
    /\ Alive
    /\ \E t \in Instants : t > clock /\ clock' = t
    /\ UNCHANGED <<storeVars, lpc, now, due, sentReminders, lastFired, notifyErr,
                   lifeVars, taskVars>>

\* Start(): wg.Add(1); go r.reminderLoop().  The new goroutine creates its
\* ticker and reaches the select.
Start ==
    /\ mainpc = "new"
    /\ \E l \in LoopIds :
         /\ lpc[l] = "off"
         /\ l = "L2" => lpc["L1"] # "off"
         /\ lpc' = [lpc EXCEPT ![l] = "select"]
    /\ wg' = wg + 1
    /\ UNCHANGED <<storeVars, clock, now, due, sentReminders, lastFired, notifyErr,
                   stopChan, mainpc, stopMidTick, ticksAfterStop, taskVars>>

\* A variant of the first half of Stop() in which closing a closed channel
\* does nothing.
StopCloseNoPanic ==
    /\ mainpc \in {"new", "stopped"}
    /\ stopChan' = "closed"
    /\ mainpc' = "stopping"
    /\ stopMidTick' = (\E l \in LoopIds : InTick(l))
    /\ UNCHANGED <<storeVars, tickVars, wg, ticksAfterStop, taskVars>>

\* Stop(), first half: close(r.stopChan); closing a closed channel panics.
StopClose ==
    /\ mainpc \in {"new", "stopped"}
    /\ IF stopChan = "closed"
       THEN mainpc' = "panic" /\ UNCHANGED <<stopChan, stopMidTick>>
       ELSE /\ stopChan' = "closed"
            /\ mainpc' = "stopping"
            /\ stopMidTick' = (\E l \in LoopIds : InTick(l))
    /\ UNCHANGED <<storeVars, tickVars, wg, ticksAfterStop, taskVars>>

\* A variant of Stop() that does not wait.
WaitSkipped == TRUE

\* r.wg.Wait()
WaitDone == wg = 0

\* Stop(), second half: wg.Wait() returns.
StopWait ==
    /\ mainpc = "stopping"
    /\ WaitDone
    /\ mainpc' = "stopped"
    /\ UNCHANGED <<storeVars, tickVars, stopChan, wg, stopMidTick, ticksAfterStop, taskVars>>

\* A variant of the loop that does not watch the stop channel.
LoopIgnoresStop(l) == FALSE /\ UNCHANGED vars

\* reminderLoop: case <-r.stopChan: return, and the deferred wg.Done().
LoopExit(l) ==
    /\ Alive
    /\ lpc[l] = "select"
    /\ stopChan = "closed"
    /\ lpc' = [lpc EXCEPT ![l] = "exited"]
    /\ wg' = wg - 1
    /\ UNCHANGED <<storeVars, clock, now, due, sentReminders, lastFired, notifyErr,
                   stopChan, mainpc, stopMidTick, ticksAfterStop, taskVars>>

\* reminderLoop: case <-ticker.C; checkReminders line 70: now := time.Now()
TickStart(l) ==
    /\ Alive
    /\ lpc[l] = "select"
    /\ lpc' = [lpc EXCEPT ![l] = "query"]
    /\ now' = [now EXCEPT ![l] = clock]
    /\ ticksAfterStop' =
         IF stopChan = "closed" /\ ticksAfterStop[l] < MaxTicks
         THEN [ticksAfterStop EXCEPT ![l] = @ + 1]
         ELSE ticksAfterStop
    /\ UNCHANGED <<storeVars, clock, due, sentReminders, lastFired,
                   notifyErr, stopChan, wg, mainpc, stopMidTick, taskVars>>

\* checkReminders line 71: the call of GetTasksWithRemindersBy takes the
\* read lock ...
TickRLock(l) ==
    /\ Alive
    /\ lpc[l] = "query"
    /\ RLock(l, "GetTasksWithRemindersBy")
    /\ UNCHANGED schedVars

\* ... loads a file that is missing ...
TickStatMissing(l) ==
    /\ Alive /\ lpc[l] = "query"
    /\ StatMissing(l)
    /\ UNCHANGED schedVars
TickInitOpen(l) ==
    /\ Alive /\ lpc[l] = "query"
    /\ InitOpen(l)
    /\ UNCHANGED schedVars

\* ... and returns; lines 72-75: on an error the tick ends.
TickQuery(l) ==
    /\ Alive
    /\ lpc[l] = "query"
    /\ GetTasksWithRemindersBy(l, now[l])
    /\ IF ret'.err # None
       THEN lpc' = [lpc EXCEPT ![l] = "select"] /\ UNCHANGED due
       ELSE lpc' = [lpc EXCEPT ![l] = "loop"]
            /\ due' = [due EXCEPT ![l] = ret'.val]
    /\ UNCHANGED <<clock, now, sentReminders, lastFired, notifyErr, lifeVars, taskVars>>

\* Lines 77-83, 89-91: the ledger is consulted, and updated, under
\* remindersMutex for the current task of the range loop.
TickCheck(l) ==
    /\ Alive
    /\ lpc[l] = "loop"
    /\ due[l] # <<>>
    /\ LET task == Head(due[l])
       IN  IF ShouldSend(sentReminders, task.id, now[l])
           THEN /\ sentReminders' = MapPut(sentReminders, task.id, now[l])
                /\ lpc' = [lpc EXCEPT ![l] = "update"]
                /\ UNCHANGED due
           ELSE /\ due' = [due EXCEPT ![l] = Tail(@)]
                /\ UNCHANGED <<sentReminders, lpc>>
    /\ UNCHANGED <<storeVars, clock, now, lastFired, notifyErr, lifeVars, taskVars>>

\* Line 85: task.UpdateStatus(), which reads the clock again.
TickUpdateStatus(l) ==
    /\ Alive
    /\ lpc[l] = "update"
    /\ due' = [due EXCEPT ![l] = <<UpdateStatus(Head(@), clock)>> \o Tail(@)]
    /\ lpc' = [lpc EXCEPT ![l] = "save"]
    /\ UNCHANGED <<storeVars, clock, now, sentReminders, lastFired, notifyErr, lifeVars,
                   taskVars>>

\* Line 86: r.storage.SaveTask(task); its error is dropped.
TickLock(l) ==
    /\ Alive
    /\ lpc[l] = "save"
    /\ Lock(l, "SaveTask")
    /\ UNCHANGED schedVars

TickSave(l) ==
    /\ Alive
    /\ lpc[l] = "save"
    /\ SaveTask(l, Head(due[l]))
    /\ lpc' = [lpc EXCEPT ![l] = "notify"]
    /\ UNCHANGED <<clock, now, due, sentReminders, lastFired, notifyErr, lifeVars,
                   taskVars>>

\* What Notifier.Notify returns: nil or an error.
NotifyOutcomes == {None, "notify"}

\* Line 88: r.notifier.Notify(task); its error is dropped.
TickNotify(l) ==
    /\ Alive
    /\ lpc[l] = "notify"
    /\ lastFired' = MapPut(lastFired, Head(due[l]).id, now[l])
    /\ \E e \in NotifyOutcomes : notifyErr' = e
    /\ due' = [due EXCEPT ![l] = Tail(@)]
    /\ lpc' = [lpc EXCEPT ![l] = "loop"]
    /\ UNCHANGED <<storeVars, clock, now, sentReminders, lifeVars, taskVars>>

\* Lines 94-100: the sweep of the ledger, under remindersMutex.
TickSweep(l) ==
    /\ Alive
    /\ lpc[l] = "loop"
    /\ due[l] = <<>>
    /\ sentReminders' = Sweep(sentReminders, now[l])
    /\ lpc' = [lpc EXCEPT ![l] = "select"]
    /\ UNCHANGED <<storeVars, clock, now, due, lastFired, notifyErr, lifeVars, taskVars>>

Loop ==
    \E l \in LoopIds :
        \/ LoopExit(l) \/ TickStart(l) \/ TickRLock(l) \/ TickStatMissing(l)
        \/ TickInitOpen(l) \/ TickQuery(l) \/ TickCheck(l)
        \/ TickUpdateStatus(l) \/ TickLock(l) \/ TickSave(l) \/ TickNotify(l)
        \/ TickSweep(l)

----------------------------------------------------------------------------
(* The store under concurrent callers *)

OpsOf(w) ==
    CASE w = "tasks" -> TaskOps
      [] w = "notes" -> NoteOps
      [] w = "both"  -> TaskOps \cup NoteOps
      [] w = "sched" -> {"SaveTask", "DeleteTask"}
      [] w = "create" -> {"DeleteTask", "GetAllTasks"}

ClientLock ==
    /\ \E p \in Clients, op \in WriteOps \cap OpsOf(workload) : Lock(p, op)
    /\ UNCHANGED schedVars
ClientRLock ==
    /\ \E p \in Clients, op \in ReadOps \cap OpsOf(workload) : RLock(p, op)
    /\ UNCHANGED schedVars
ClientStatMissing ==
    /\ \E p \in Clients : StatMissing(p)
    /\ UNCHANGED schedVars
ClientInitOpen ==
    /\ \E p \in Clients : InitOpen(p)
    /\ UNCHANGED schedVars
ClientSaveTask ==
    /\ \E p \in Clients, t \in ClientTasks(workload) : SaveTask(p, t)
    /\ UNCHANGED schedVars
ClientSaveNote ==
    /\ \E p \in Clients, n \in ClientNotes(workload) : SaveNote(p, n)
    /\ UNCHANGED schedVars
ClientDeleteTask ==
    /\ \E p \in Clients, id \in TaskIds : DeleteTask(p, id)
    /\ UNCHANGED schedVars
ClientDeleteNote ==
    /\ \E p \in Clients, id \in NoteIds : DeleteNote(p, id)
    /\ UNCHANGED schedVars
ClientGetTask ==
    /\ \E p \in Clients, id \in TaskIds : GetTask(p, id)
    /\ UNCHANGED schedVars
ClientGetNote ==
    /\ \E p \in Clients, id \in NoteIds : GetNote(p, id)
    /\ UNCHANGED schedVars
ClientGetAllTasks ==
    /\ \E p \in Clients : GetAllTasks(p)
    /\ UNCHANGED schedVars
ClientGetAllNotes ==
    /\ \E p \in Clients : GetAllNotes(p)
    /\ UNCHANGED schedVars
ClientDueBefore ==
    /\ \E p \in Clients, t \in ClientTimes(workload) : GetTasksDueBefore(p, t)
    /\ UNCHANGED schedVars
ClientRemindersBy ==
    /\ \E p \in Clients, t \in ClientTimes(workload) : GetTasksWithRemindersBy(p, t)
    /\ UNCHANGED schedVars

StoreNext ==
    \/ ClientLock \/ ClientRLock \/ ClientStatMissing \/ ClientInitOpen
    \/ ClientSaveTask \/ ClientSaveNote \/ ClientDeleteTask \/ ClientDeleteNote
    \/ ClientGetTask \/ ClientGetNote \/ ClientGetAllTasks \/ ClientGetAllNotes
    \/ ClientDueBefore \/ ClientRemindersBy

\* Concurrent callers that work on one of the two collections.
OneInit  == StoreInit /\ SchedInit /\ workload \in {"tasks", "notes"}
SpecStore == OneInit /\ [][StoreNext]_vars

\* Concurrent callers that work on both collections.
BothInit == StoreInit /\ SchedInit /\ workload = "both"
SpecLock == BothInit /\ [][StoreNext]_vars

----------------------------------------------------------------------------
(* The program: main starts the service once, the client works on the      *)
(* tasks, and main stops the service when the client has quit.             *)

MainStart == (\A l \in LoopIds : lpc[l] = "off") /\ Start
MainStop  == mainpc = "new" /\ (\E l \in LoopIds : lpc[l] # "off") /\ StopClose

TuiLock ==
    /\ Alive /\ mainpc = "new"
    /\ \E op \in WriteOps \cap OpsOf(workload) : Lock("c1", op)
    /\ UNCHANGED schedVars
TuiSaveTask ==
    /\ Alive
    /\ \E t \in ClientTasks(workload) :
         /\ SaveTask("c1", t)
         /\ clientLast' =
              [clientLast EXCEPT ![t.id] =
                 IF ret'.err = None THEN [op |-> "SaveTask", rec |-> <<t>>]
                                   ELSE NoClientOp]
    /\ UNCHANGED <<tickVars, lifeVars, mem, lastOp, call>>
TuiDeleteTask ==
    /\ Alive
    /\ \E t \in ClientTasks(workload) :
         /\ DeleteTask("c1", t.id)
         /\ clientLast' =
              [clientLast EXCEPT ![t.id] =
                 CASE ret'.err = None -> [op |-> "DeleteTask", rec |-> <<>>]
                   [] ret'.err = "notfound" -> @
                   [] OTHER -> NoClientOp]
    /\ UNCHANGED <<tickVars, lifeVars, mem, lastOp, call>>

Next ==
    \/ MainStart \/ MainStop \/ StopWait \/ Advance
    \/ TuiLock \/ TuiSaveTask \/ TuiDeleteTask
    \/ \E l \in {"L1"} :
        \/ LoopExit(l) \/ TickStart(l) \/ TickRLock(l) \/ TickStatMissing(l)
        \/ TickInitOpen(l) \/ TickQuery(l) \/ TickCheck(l)
        \/ TickUpdateStatus(l) \/ TickLock(l) \/ TickSave(l) \/ TickNotify(l)
        \/ TickSweep(l)

Init == StoreInit /\ SchedInit /\ workload = "sched"

Spec == Init /\ [][Next]_vars

\* The service under any calls of Start() and then of Stop(), on a store no
\* client uses in this run: the tasks file is missing, or an earlier run of
\* the program has left a task in it, whose reminder time has passed.
LifeNext == Start \/ StopClose \/ StopWait \/ Loop

LifeInit ==
    /\ clock \in {1, 2}
    /\ ServiceInit
    /\ NoTask
    /\ workload = "sched"
    /\ tasksFile \in
         {Missing} \cup {Doc(<<MarshalTask(t)>>) : t \in ClientTasks("sched")}
    /\ notesFile = Missing
    /\ Quiet

SpecLife == LifeInit /\ [][LifeNext]_vars

\* The steps of a tick after its start.
TickStep(l) ==
    \/ TickRLock(l) \/ TickStatMissing(l) \/ TickInitOpen(l) \/ TickQuery(l)
    \/ TickCheck(l) \/ TickUpdateStatus(l) \/ TickLock(l) \/ TickSave(l)
    \/ TickNotify(l) \/ TickSweep(l)

\* The scheduling the runtime gives: a select at which the stop channel is
\* ready again and again chooses it at some point (the choice among ready
\* cases is random), a tick in flight goes on (the store's lock is granted
\* to a goroutine that waits for it, file operations and the Notifier
\* return), and the goroutine in Stop() runs when its wait is over.
LifeFairness ==
    /\ \A l \in LoopIds : SF_vars(LoopExit(l)) /\ SF_vars(TickStep(l))
    /\ WF_vars(StopWait)

SpecLifeFair == LifeInit /\ [][LifeNext]_vars /\ LifeFairness

----------------------------------------------------------------------------
(* The methods of a Task, called in any order on a task of any status, as   *)
(* time passes.                                                             *)

TaskStatuses ==
    {TaskStatusPending, TaskStatusInProgress, TaskStatusCompleted,
     TaskStatusOverdue}

AnyTasks ==
    [id : {"t1"}, status : TaskStatuses, dueDate : Times, reminderAt : {0},
     tags : {NilSlice}]

\* A method of the task in memory has run and left t.
Call(op, t) ==
    /\ mem' = t
    /\ lastOp' = op
    /\ UNCHANGED <<storeVars, tickVars, lifeVars, call, clientLast>>

CallUpdateStatus ==
    /\ mem # <<>>
    /\ Call("UpdateStatus", UpdateStatus(mem, clock))
CallMarkInProgress ==
    /\ mem # <<>>
    /\ Call("MarkInProgress", MarkInProgress(mem))
CallComplete ==
    /\ mem # <<>>
    /\ Call("Complete", Complete(mem))
CallToggle ==
    /\ mem # <<>>
    /\ Call("ToggleComplete", ToggleComplete(mem))

TaskNext ==
    \/ Advance \/ CallUpdateStatus \/ CallMarkInProgress \/ CallComplete
    \/ CallToggle

TaskInit ==
    /\ StoreInit
    /\ workload = "tasks"
    /\ clock = 0
    /\ ServiceInit
    /\ mem \in AnyTasks
    /\ lastOp = None
    /\ call = <<>>
    /\ clientLast = [id \in TaskIds |-> NoClientOp]

SpecTask == TaskInit /\ [][TaskNext]_vars

----------------------------------------------------------------------------
(* ReminderService.CreateTaskWithReminder, called by one caller at a time   *)
(* while the callers also read and delete tasks.                            *)

\* The default lead of NewTask, one hour.
DefaultLead == 1

\* The lead periods and the due dates the callers pass.
LeadPeriods == {0, DefaultLead, MaxTime}
DueDates == {1, MaxTime}

\* models.NewTask, with the identifier GenerateUniqueID returns.
NewTask(id, dueDate) ==
    [id |-> id, status |-> TaskStatusPending, dueDate |-> dueDate,
     reminderAt |-> dueDate - DefaultLead, tags |-> NilSlice]

\* A variant that keeps the reminder time the task has.
SetReminderPeriodKept(t, period) == t

\* Task.SetReminderPeriod
SetReminderPeriod(t, period) ==
    [t EXCEPT !.reminderAt = t.dueDate - period]

\* NewTask, SetReminderPeriod, and the Lock at the head of SaveTask.
CreateTask ==
    /\ lastOp # "SetReminderPeriod"
    /\ \E p \in Clients, id \in TaskIds, dueDate \in DueDates,
          period \in LeadPeriods :
         /\ Lock(p, "SaveTask")
         /\ mem' = SetReminderPeriod(NewTask(id, dueDate), period)
         /\ lastOp' = "SetReminderPeriod"
         /\ call' = [by |-> p, dueDate |-> dueDate, period |-> period]
    /\ UNCHANGED <<tickVars, lifeVars, clientLast>>

\* SaveTask runs and CreateTaskWithReminder returns (task, nil) or
\* (nil, err): mem is the task it returns, ret.err the error.
CreateSave ==
    /\ lastOp = "SetReminderPeriod"
    /\ SaveTask(call.by, mem)
    /\ mem' = IF ret'.err = None THEN mem ELSE <<>>
    /\ lastOp' = "CreateTaskWithReminder"
    /\ UNCHANGED <<tickVars, lifeVars, call, clientLast>>

CreateNext ==
    \/ CreateTask \/ CreateSave
    \/ ClientLock \/ ClientRLock \/ ClientStatMissing \/ ClientInitOpen
    \/ ClientDeleteTask \/ ClientGetAllTasks

CreateInit == StoreInit /\ SchedInit /\ workload = "create"

SpecCreate == CreateInit /\ [][CreateNext]_vars

----------------------------------------------------------------------------
(* The main program without the interactive client, on files an earlier run *)
(* has left: a note and, unless there is no tasks file yet, a task whose    *)
(* reminder time has passed and a second task that is Pending or Completed, *)
(* with a reminder time that has passed or is still to come.                *)

FrameTasks ==
    {<<t1, t2>> :
        t1 \in [id : {"t1"}, status : {TaskStatusPending}, dueDate : {1},
                reminderAt : {0}, tags : {NilSlice}],
        t2 \in [id : {"t2"}, status : ClientStatuses,
                dueDate : {2 + ExpiryWindow},
                reminderAt : {0, 1 + ExpiryWindow}, tags : {NilSlice}]}

FrameInit ==
    /\ clock \in {1, 2}
    /\ ServiceInit
    /\ NoTask
    /\ workload = "sched"
    /\ tasksFile \in
         {Missing} \cup {Doc(MapSeq(ts, MarshalTask)) : ts \in FrameTasks}
    /\ notesFile \in
         {Doc(<<MarshalNote(n)>>) : n \in ClientNotes("both")}
    /\ Quiet

FrameNext ==
    \/ MainStart \/ MainStop \/ StopWait
    \/ \E l \in {"L1"} : LoopExit(l) \/ TickStart(l) \/ TickStep(l)

SpecFrame == FrameInit /\ [][FrameNext]_vars

----------------------------------------------------------------------------
(* Task.Update and Task.SetReminderPeriod, called on one task in memory     *)
(* among the methods that set its status.                                   *)

\* Task.Update: the due date is assigned before the offset is taken.
Update(t, dueDate) ==
    LET u == [t EXCEPT !.dueDate = dueDate]
        offset == u.dueDate - u.reminderAt
    IN  [u EXCEPT !.reminderAt = dueDate - offset]

CallUpdate ==
    /\ mem # <<>>
    /\ \E dueDate \in Times :
         /\ mem' = Update(mem, dueDate)
         /\ lastOp' = "Update"
         /\ call' = [dueDate |-> dueDate]
    /\ UNCHANGED <<storeVars, tickVars, lifeVars, clientLast>>

CallSetReminderPeriod ==
    /\ mem # <<>>
    /\ \E period \in LeadPeriods :
         /\ mem' = SetReminderPeriod(mem, period)
         /\ lastOp' = "SetReminderPeriod"
         /\ call' = [period |-> period]
    /\ UNCHANGED <<storeVars, tickVars, lifeVars, clientLast>>

UpdateNext ==
    \/ CallUpdate \/ CallSetReminderPeriod
    \/ CallUpdateStatus \/ CallMarkInProgress \/ CallComplete \/ CallToggle

\* A task as NewTask makes it, with any due date.
UpdateInit ==
    /\ StoreInit
    /\ workload = "tasks"
    /\ clock = 0
    /\ ServiceInit
    /\ mem \in {NewTask("t1", dueDate) : dueDate \in Times}
    /\ lastOp = None
    /\ call = <<>>
    /\ clientLast = [id \in TaskIds |-> NoClientOp]

SpecUpdate == UpdateInit /\ [][UpdateNext]_vars

----------------------------------------------------------------------------
(* The tag methods of Task and Note, called on one record in memory.        *)

MaxLen == 3
Tags == {"a", "b", "c"}

\* The index at which `for i, t := range tags` finds tag first, or 0.
TagIndex(elems, tag) ==
    LET at == {i \in 1 .. Len(elems) : elems[i] = tag}
    IN  IF at = {} THEN 0 ELSE CHOOSE i \in at : \A j \in at : i <= j

\* Task.AddTag and Note.AddTag
TaskAddTag(t, tag) ==
    IF TagIndex(t.tags.elems, tag) # 0
    THEN t
    ELSE [t EXCEPT !.tags = MakeSlice(Append(t.tags.elems, tag))]
NoteAddTag(n, tag) ==
    IF TagIndex(n.tags.elems, tag) # 0
    THEN n
    ELSE [n EXCEPT !.tags = MakeSlice(Append(n.tags.elems, tag))]

\* Task.RemoveTag: t.Tags = append(t.Tags, t.Tags[i+1:]...)
TaskRemoveTag(t, tag) ==
    LET e == t.tags.elems
        i == TagIndex(e, tag)
    IN  IF i = 0
        THEN t
        ELSE [t EXCEPT !.tags = MakeSlice(e \o SubSeq(e, i + 1, Len(e)))]

\* Note.RemoveTag: n.Tags = append(n.Tags[:i], n.Tags[i+1:]...)
NoteRemoveTag(n, tag) ==
    LET e == n.tags.elems
        i == TagIndex(e, tag)
    IN  IF i = 0
        THEN n
        ELSE [n EXCEPT !.tags =
                 MakeSlice(SubSeq(e, 1, i - 1) \o SubSeq(e, i + 1, Len(e)))]

IsTask(x) == "dueDate" \in DOMAIN x

\* A tag method has run on the record in memory with the argument tag.
CallTag(op, tag, x) ==
    /\ mem' = x
    /\ lastOp' = op
    /\ call' = [tag |-> tag]
    /\ UNCHANGED <<storeVars, tickVars, lifeVars, clientLast>>

CallTaskAddTag ==
    /\ IsTask(mem) /\ Len(mem.tags.elems) < MaxLen
    /\ \E tag \in Tags : CallTag("AddTag", tag, TaskAddTag(mem, tag))
CallTaskRemoveTag ==
    /\ IsTask(mem) /\ Len(mem.tags.elems) <= MaxLen
    /\ \E tag \in Tags : CallTag("RemoveTag", tag, TaskRemoveTag(mem, tag))
CallNoteAddTag ==
    /\ ~IsTask(mem) /\ Len(mem.tags.elems) < MaxLen
    /\ \E tag \in Tags : CallTag("AddTag", tag, NoteAddTag(mem, tag))
CallNoteRemoveTag ==
    /\ ~IsTask(mem) /\ Len(mem.tags.elems) <= MaxLen
    /\ \E tag \in Tags : CallTag("RemoveTag", tag, NoteRemoveTag(mem, tag))

TagNext ==
    \/ CallTaskAddTag \/ CallTaskRemoveTag
    \/ CallNoteAddTag \/ CallNoteRemoveTag

\* A new Task or a new Note, without tags.
TagInit ==
    /\ StoreInit
    /\ workload = "both"
    /\ clock = 0
    /\ ServiceInit
    /\ mem \in ClientTasks("both") \cup ClientNotes("both")
    /\ lastOp = None
    /\ call = <<>>
    /\ clientLast = [id \in TaskIds |-> NoClientOp]

SpecTags == TagInit /\ [][TagNext]_vars

----------------------------------------------------------------------------
(* Properties *)

\* What a load of the file yields: the records of a readable file, none for
\* a file that is missing (the load creates it empty).
StoredTasks(file) ==
    IF file.st = "ok" THEN MapSeq(file.recs, UnmarshalTask) ELSE <<>>
StoredNotes(file) ==
    IF file.st = "ok" THEN MapSeq(file.recs, UnmarshalNote) ELSE <<>>
Stored(op, file) ==
    IF op \in NoteOps THEN StoredNotes(file) ELSE StoredTasks(file)
Ids(recs) == {recs[i].id : i \in 1 .. Len(recs)}
Without(recs, id) == SelectSeq(recs, LAMBDA x : x.id # id)

\* The durable state of a collection as later loads observe it.
Durable(file) ==
    IF file.st = "partial" THEN <<"corrupt">>
    ELSE <<"collection", file.recs>>

\* The file of a method's collection after the step.
FileAfter(op) == IF op \in NoteOps THEN notesFile' ELSE tasksFile'

\* p's call of a store method returns in this step.
Returns(p) == pc[p] # "idle" /\ pc'[p] = "idle"

\* Equality of two records field by field, the tags as the sequences of
\* strings they hold.
SameRecord(a, b) ==
    /\ DOMAIN a = DOMAIN b
    /\ \A f \in DOMAIN a \ {"tags"} : a[f] = b[f]
    /\ a.tags.elems = b.tags.elems

\* The record a save of x leaves in the collection.
AsStored(op, x) ==
    IF op \in NoteOps THEN UnmarshalNote(MarshalNote(x))
    ELSE UnmarshalTask(MarshalTask(x))

\* C1: A tick that finds a task in its query invokes the Notifier for it
\* exactly when the Notifier was never invoked for that task or was last
\* invoked by a tick whose capture time lies more than the 6 hours of the
\* re-notify window before this tick's.  So of two consecutive ticks that
\* find the task, the first of which fires, the second fires when they are
\* more than 6 hours apart (two invocations) and does not when they are less
\* than 6 hours apart (one invocation).
C1_Dedup ==
    [][\A l \in LoopIds :
         (lpc[l] = "loop" /\ due[l] # <<>> /\ <<lpc[l], due[l]>>' # <<lpc[l], due[l]>>)
         => LET id == Head(due[l]).id
            IN  (lpc'[l] = "update")
                <=> (\/ id \notin DOMAIN lastFired
                     \/ now[l] - lastFired[id] > RenotifyWindow)]_vars

\* A tick is about to invoke the Notifier again for a task that is still in
\* the ledger, more than 6 hours after the tick that invoked it before.
C1_Witness ==
    \E l \in LoopIds :
        /\ lpc[l] = "notify"
        /\ Head(due[l]).id \in DOMAIN lastFired
        /\ now[l] - lastFired[Head(due[l]).id] > RenotifyWindow
        /\ now[l] - lastFired[Head(due[l]).id] < ExpiryWindow

\* C2: Once Stop() has returned, every reminderLoop that was started has
\* exited: no checkReminders is running, and none runs in any later state.
C2_StopJoinsLoop ==
    mainpc \in {"stopped", "panic"}
    => \A l \in LoopIds : lpc[l] \in {"off", "exited"} /\ pc[l] = "idle"

\* Stop() was called while a tick was running, and has returned.
C2_Witness ==
    /\ mainpc = "stopped"
    /\ stopMidTick
    /\ \E l \in LoopIds : lpc[l] = "exited"

\* C3: The SaveTask of a tick never turns the status of a task that is
\* Completed in the tasks file into another status.
C3_CompletedStays ==
    [][\A l \in LoopIds :
         (lpc[l] = "save" /\ lpc'[l] = "notify")
         => \A i \in 1 .. Len(StoredTasks(tasksFile)) :
              StoredTasks(tasksFile)[i].status = TaskStatusCompleted
              => \A j \in 1 .. Len(StoredTasks(tasksFile')) :
                   StoredTasks(tasksFile')[j].id = StoredTasks(tasksFile)[i].id
                   => StoredTasks(tasksFile')[j].status = TaskStatusCompleted]_vars

\* C4: A SaveTask, SaveNote, DeleteTask or DeleteNote that returns the error
\* of a failed write leaves the durable state of both collections as it was.
C4_FailedWriteKeepsState ==
    [][\A p \in Procs :
         (Returns(p) /\ opn[p] \in WriteOps /\ ret'.err = "write")
         => /\ Durable(tasksFile') = Durable(tasksFile)
            /\ Durable(notesFile') = Durable(notesFile)]_vars

\* C5: Whoever is writing a file holds the store's lock exclusively.
C5_WritesUnderLock ==
    \A p \in Procs : pc[p] = "writing" => mutex.writer = p

\* C6: A GetTask or GetNote of an identifier whose last save succeeded, with
\* no save or delete of that identifier since, succeeds and returns a record
\* equal in every field to the one saved.
C6_RoundTrip ==
    [][\A p \in Procs :
         (Returns(p) /\ opn[p] \in {"GetTask", "GetNote"})
         => LET id == ret'.arg[1]
            IN  lastSaved[id] # <<>>
                => /\ ret'.err = None
                   /\ SameRecord(ret'.val[1], lastSaved[id][1])]_vars

C8_DueBefore ==
    [][\A p \in Procs :
         (Returns(p) /\ opn[p] = "GetTasksDueBefore" /\ ret'.err = None)
         => ret'.val =
              SelectSeq(StoredTasks(tasksFile'),
                        LAMBDA x : x.dueDate < ret'.arg[1]
                                   /\ x.status # TaskStatusCompleted)]_vars

\* A GetTasksDueBefore(t) has returned a task and left out a Completed one
\* that is due before t and one that is not due before t.
C8_Witness ==
    /\ ret.op = "GetTasksDueBefore"
    /\ ret.err = None
    /\ ret.val # <<>>
    /\ \E i \in 1 .. Len(StoredTasks(tasksFile)) :
         LET x == StoredTasks(tasksFile)[i]
         IN  (x.dueDate < ret.arg[1] /\ x.status = TaskStatusCompleted)
             \/ (x.dueDate >= ret.arg[1] /\ x.status # TaskStatusCompleted)

\* C9: The identifiers of a collection are pairwise distinct.  A save that
\* succeeds puts the record at the place of the record with its identifier,
\* with the length and the other records as they were, or, if there is none,
\* at the end.
C9_UniqueIds ==
    /\ [](\A f \in {tasksFile, notesFile} :
            \A i, j \in 1 .. Len(f.recs) : f.recs[i].id = f.recs[j].id => i = j)
    /\ [][\A p \in Procs :
            (Returns(p) /\ opn[p] \in {"SaveTask", "SaveNote"} /\ ret'.err = None)
            => LET x   == AsStored(opn[p], ret'.arg[1])
                   old == Stored(opn[p], FileOf(opn[p]))
                   new == Stored(opn[p], FileAfter(opn[p]))
               IN  IF x.id \in Ids(old)
                   THEN /\ Len(new) = Len(old)
                        /\ \A i \in 1 .. Len(old) :
                             new[i] = IF old[i].id = x.id THEN x ELSE old[i]
                   ELSE new = Append(old, x)]_vars

\* A save has just replaced the first of two records.
C9_Witness ==
    /\ ret.op \in {"SaveTask", "SaveNote"}
    /\ ret.err = None
    /\ Len(Stored(ret.op, FileOf(ret.op))) = 2
    /\ Stored(ret.op, FileOf(ret.op))[1].id = ret.arg[1].id

\* C10 as stated: while a write of one collection holds its lock, an
\* operation of the other collection can take the lock it needs.
C10_IndependentLocks ==
    \A p \in Procs :
        (mutex.writer = p /\ opn[p] \in NoteOps \cup TaskOps) => CanRLock

\* C10: Notes and Tasks share the one lock of the store: while a write of
\* either collection holds it, no other operation of either collection is
\* running; operations that only read run side by side.
C10_OneStoreLock ==
    \A p \in Procs :
        mutex.writer = p => \A q \in Procs \ {p} : pc[q] = "idle"

\* A write of the notes holds the lock while the tasks file has a task in it
\* that the other caller, idle, could otherwise read.
C10_Witness ==
    \E p \in Procs :
        /\ mutex.writer = p
        /\ opn[p] \in {"SaveNote", "DeleteNote"}
        /\ StoredTasks(tasksFile) # <<>>

\* C11: A GetAllTasks or GetAllNotes that starts after a save has returned
\* without error, with no save or delete of that identifier since, succeeds
\* and has the saved record in its result.
C11_ReadsSeeWrites ==
    [][\A p \in Procs :
         (Returns(p) /\ opn[p] \in {"GetAllTasks", "GetAllNotes"})
         => \A id \in (IF opn[p] = "GetAllTasks" THEN TaskIds ELSE NoteIds) :
              lastSaved[id] # <<>>
              => /\ ret'.err = None
                 /\ \E i \in 1 .. Len(ret'.val) :
                      SameRecord(ret'.val[i], lastSaved[id][1])]_vars

\* The collection of op has no file yet, or its file is being created.
Fresh(op) ==
    \/ FileOf(op).st = "missing"
    \/ /\ FileOf(op).st = "partial"
       /\ \E q \in Procs :
            pc[q] \in {"init", "writing"} /\ (opn[q] \in NoteOps <=> op \in NoteOps)

\* C12: A store method that is called while its collection has no file yet
\* does not fail unless the write of the empty container fails; a reading
\* method that succeeds returns no records and leaves the file an empty
\* container.
C12_FirstAccess ==
    [][\A p \in Procs :
         (Returns(p) /\ Fresh(opn[p]))
         => /\ ret'.err \in {None, "write", "notfound"}
            /\ (opn[p] \in ReadOps /\ ret'.err = None)
               => ret'.val = <<>> /\ FileAfter(opn[p]) = Doc(<<>>)]_vars

\* C13: A store call of a tick that fails leaves every task of the store in
\* the store, where the query of a later tick finds the due task again.
C13_BadTickKeepsTasks ==
    [][\A l \in LoopIds :
         (Returns(l) /\ ret'.err # None /\ StoredTasks(tasksFile) # <<>>)
         => Ids(StoredTasks(tasksFile)) \subseteq Ids(StoredTasks(tasksFile'))]_vars

\* C14: UpdateStatus on a task whose status is Completed leaves every field
\* of the task as it is, at every time and for every due date, so any number
\* of calls does.
C14_UpdateStatusIdempotent ==
    [][(lastOp' = "UpdateStatus" /\ mem.status = TaskStatusCompleted)
       => mem' = mem]_vars

\* UpdateStatus has run on a Completed task whose due date has passed.
C14_Witness ==
    /\ lastOp = "UpdateStatus"
    /\ mem.status = TaskStatusCompleted
    /\ clock > mem.dueDate

\* C15: Every change of the status of a task by one of its methods or by the
\* client's toggle is a transition of the status machine: Pending to Overdue
\* by the status check once the due date has passed; Pending, InProgress or
\* Overdue to Completed by an explicit complete; Completed to Pending by the
\* explicit un-complete.
C15_StatusMachine ==
    [][mem'.status # mem.status
       => \/ /\ mem.status = TaskStatusPending
             /\ mem'.status = TaskStatusOverdue
             /\ lastOp' = "UpdateStatus"
             /\ clock > mem.dueDate
          \/ /\ mem.status # TaskStatusCompleted
             /\ mem'.status = TaskStatusCompleted
             /\ lastOp' \in {"Complete", "ToggleComplete"}
          \/ /\ mem.status = TaskStatusCompleted
             /\ mem'.status = TaskStatusPending
             /\ lastOp' = "ToggleComplete"]_vars

\* C16: A GetTasksWithRemindersBy(t) that succeeds returns the tasks of the
\* collection whose reminder time is at or before t and whose status is not
\* Completed, in particular a task whose reminder time is t.
C16_RemindersAtOrBefore ==
    [][\A p \in Procs :
         (Returns(p) /\ opn[p] = "GetTasksWithRemindersBy" /\ ret'.err = None)
         => ret'.val =
              SelectSeq(StoredTasks(tasksFile'),
                        LAMBDA x : x.reminderAt <= ret'.arg[1]
                                   /\ x.status # TaskStatusCompleted)]_vars

\* The loop l examines the head of its tasks against the ledger in this step.
Checks(l) ==
    /\ lpc[l] = "loop" /\ due[l] # <<>>
    /\ <<lpc[l], due[l]>>' # <<lpc[l], due[l]>>

\* The task the loop l examines was found Pending, was last notified by a
\* tick not after its due date, and this tick is after the due date.
SecondTick(l) ==
    LET t == Head(due[l])
    IN  /\ t.status = TaskStatusPending
        /\ t.id \in DOMAIN lastFired
        /\ lastFired[t.id] <= t.dueDate
        /\ now[l] > t.dueDate

\* C17 as stated: the tick after the due date, one hour after the tick that
\* notified the task before the due date, notifies it again (and goes on to
\* the status check).
C17_SecondTickFires ==
    [][\A l \in LoopIds :
         (Checks(l) /\ SecondTick(l) /\ now[l] - lastFired[Head(due[l]).id] = 1)
         => lpc'[l] = "update"]_vars

\* C17: The status check of a tick leaves a Pending task Pending while the
\* clock is not after its due date and makes it Overdue after that, and a
\* save that succeeds persists that status.  A tick after the due date that
\* comes 6 hours or less after the tick that notified the task does not
\* notify it and leaves the tasks file, so the persisted status, as it is.
C17_SecondTickInWindow ==
    /\ [][\A l \in LoopIds :
            (lpc[l] = "update" /\ lpc'[l] = "save")
            => Head(due[l])' =
                 IF Head(due[l]).status # TaskStatusCompleted
                    /\ clock > Head(due[l]).dueDate
                 THEN [Head(due[l]) EXCEPT !.status = TaskStatusOverdue]
                 ELSE Head(due[l])]_vars
    /\ [][\A l \in LoopIds :
            (lpc[l] = "save" /\ lpc'[l] = "notify" /\ ret'.err = None)
            => \E i \in 1 .. Len(StoredTasks(tasksFile')) :
                 StoredTasks(tasksFile')[i] = Head(due[l])]_vars
    /\ [][\A l \in LoopIds :
            (Checks(l) /\ SecondTick(l)
               /\ now[l] - lastFired[Head(due[l]).id] <= RenotifyWindow)
            => /\ lpc'[l] = "loop"
               /\ due'[l] = Tail(due[l])
               /\ tasksFile' = tasksFile
               /\ lastFired' = lastFired]_vars

\* The tick one hour after the tick that notified the task has found the
\* task, now past its due date, and has skipped it: it is still Pending in
\* the file.
C17_Witness ==
    \E l \in LoopIds :
        /\ lpc[l] = "loop" /\ due[l] = <<>>
        /\ ret.op = "GetTasksWithRemindersBy" /\ ret.val # <<>>
        /\ "t1" \in DOMAIN lastFired
        /\ now[l] - lastFired["t1"] = 1
        /\ \E i \in 1 .. Len(StoredTasks(tasksFile)) :
             LET t == StoredTasks(tasksFile)[i]
             IN  /\ t.id = "t1" /\ t.status = TaskStatusPending
                 /\ lastFired["t1"] <= t.dueDate /\ now[l] > t.dueDate

\* C18: When CreateTaskWithReminder returns without an error, the task it
\* returns is Pending, has the due date that was passed and the reminder time
\* dueDate minus leadPeriod, and is in the tasks file as returned; when the
\* save fails it returns the error of the store and no task.
C18_CreateTaskWithReminder ==
    [][lastOp' = "CreateTaskWithReminder" /\ lastOp # lastOp'
       => IF ret'.err = None
          THEN /\ mem'.status = TaskStatusPending
               /\ mem'.dueDate = call.dueDate
               /\ mem'.reminderAt = call.dueDate - call.period
               /\ \E i \in 1 .. Len(StoredTasks(tasksFile')) :
                    StoredTasks(tasksFile')[i] = mem'
          ELSE /\ mem' = <<>>
               /\ ret'.op = "SaveTask"
               /\ ret'.err \in {"parse", "write"}]_vars

\* A task was created with a lead period other than the default.
C18_Witness ==
    /\ lastOp = "CreateTaskWithReminder"
    /\ ret.op = "SaveTask" /\ ret.err = None
    /\ mem # <<>>
    /\ call.period # DefaultLead
    /\ mem.reminderAt = call.dueDate - call.period

\* C19: A call of Stop() after Stop() has returned panics in its first
\* statement: it does not reach the wait, it leaves the loops, the wait
\* counter and the channel as they are, and after it nothing runs; the loops
\* are exited (or were never started) from then on.
C19_SecondStopFailsFast ==
    /\ [][(mainpc = "stopped" /\ mainpc' # mainpc)
          => /\ mainpc' = "panic"
             /\ lpc' = lpc /\ wg' = wg /\ stopChan' = stopChan
             /\ storeVars' = storeVars]_vars
    /\ [][mainpc = "panic" => mainpc' = "panic" /\ lpc' = lpc]_vars
    /\ [](mainpc = "panic" => \A l \in LoopIds : lpc[l] \in {"off", "exited"})

\* Stop() was called a second time, after it had stopped two loops.
C19_Witness ==
    /\ mainpc = "panic"
    /\ stopChan = "closed"
    /\ \A l \in LoopIds : lpc[l] = "exited"

\* The loop l invokes the Notifier in this step.
Notifies(l) == lpc[l] = "notify" /\ lpc'[l] # "notify"

\* C20: From the moment a tick has found a task eligible until it has invoked
\* the Notifier for it, the ledger entry of the task is the `now` of the
\* tick, so the entry is set before the Notifier is invoked.  The Notifier was
\* not invoked before for that task with that `now`, and whatever it returns,
\* the tick leaves the ledger as it is and goes on to the next task: it does
\* not invoke the Notifier for the task again.
C20_LedgerBeforeNotify ==
    /\ [](\A l \in LoopIds :
            lpc[l] \in {"update", "save", "notify"}
            => /\ Head(due[l]).id \in DOMAIN sentReminders
               /\ sentReminders[Head(due[l]).id] = now[l])
    /\ [][\A l \in LoopIds :
            Notifies(l)
            => LET id == Head(due[l]).id
               IN  /\ id \notin DOMAIN lastFired \/ lastFired[id] # now[l]
                   /\ lastFired'[id] = now[l]
                   /\ sentReminders' = sentReminders
                   /\ lpc'[l] = "loop"
                   /\ due'[l] = Tail(due[l])
                   /\ \A i \in 1 .. Len(due'[l]) : due'[l][i].id # id]_vars

\* The Notifier has returned an error for a task, and the tick has gone on
\* with the ledger entry of the task in place.
C20_Witness ==
    \E l \in LoopIds :
        /\ notifyErr = "notify"
        /\ lpc[l] = "loop"
        /\ "t1" \in DOMAIN lastFired /\ lastFired["t1"] = now[l]
        /\ "t1" \in DOMAIN sentReminders /\ sentReminders["t1"] = now[l]

\* The loop l sweeps the ledger in this step, at the end of its tick.
Sweeps(l) == lpc[l] = "loop" /\ due[l] = <<>> /\ lpc'[l] = "select"

\* C21: The sweep at the end of a tick that has processed its tasks leaves in
\* the ledger exactly the entries whose timestamp is at most 24 hours before
\* the `now` of the tick, each with its timestamp.
C21_LedgerSweep ==
    [][\A l \in LoopIds :
         Sweeps(l)
         => /\ DOMAIN sentReminders' =
                 {id \in DOMAIN sentReminders :
                      now[l] - sentReminders[id] <= ExpiryWindow}
            /\ \A id \in DOMAIN sentReminders' :
                 sentReminders'[id] = sentReminders[id]]_vars

\* A tick has swept out the entry of a task that was notified more than 24
\* hours before it.
C21_Witness ==
    \E l \in LoopIds :
        /\ lpc[l] = "select"
        /\ "t1" \in DOMAIN lastFired
        /\ now[l] - lastFired["t1"] > ExpiryWindow
        /\ "t1" \notin DOMAIN sentReminders

\* C22 as stated, its last part: after the stop channel is closed a loop
\* starts at most one further tick.
C22_OneFurtherTick == \A l \in LoopIds : ticksAfterStop[l] <= 1

\* C22: After Stop() has closed the stop channel, every loop that was
\* started exits and Stop() returns, provided that the ticks in flight
\* terminate and that a select that finds the stop channel ready again and
\* again chooses it at some point.
C22_StopReturns ==
    (mainpc = "stopping")
    ~> (mainpc = "stopped" /\ \A l \in LoopIds : lpc[l] \in {"off", "exited"})

\* Stop() has returned after a loop started a tick behind the stop signal.
C22_Witness ==
    /\ mainpc = "stopped"
    /\ \E l \in LoopIds : lpc[l] = "exited" /\ ticksAfterStop[l] >= 1

\* C23: At most one reminderLoop of the service is active at any moment, so
\* no two ticks of the service overlap.
C23_OneLoop ==
    /\ Cardinality({l \in LoopIds : lpc[l] \notin {"off", "exited"}}) <= 1
    /\ Cardinality({l \in LoopIds : InTick(l)}) <= 1

\* How often tag occurs in the list.
Occurrences(elems, tag) == Cardinality({i \in 1 .. Len(elems) : elems[i] = tag})

\* C24: The tag list of a Task or a Note never holds a tag twice; after
\* AddTag(t) it holds t exactly once; after RemoveTag(t) it does not hold t
\* and holds every other tag it held before.
C24_TagSets ==
    /\ [](\A tag \in Tags : Occurrences(mem.tags.elems, tag) <= 1)
    /\ [](lastOp = "AddTag" => Occurrences(mem.tags.elems, call.tag) = 1)
    /\ [](lastOp = "RemoveTag" => Occurrences(mem.tags.elems, call.tag) = 0)
    /\ [][lastOp' = "RemoveTag"
          => \A tag \in Tags \ {call'.tag} :
               Occurrences(mem'.tags.elems, tag) > 0
               <=> Occurrences(mem.tags.elems, tag) > 0]_vars

\* C24 for the Note alone.
C24_NoteTagSets ==
    ~IsTask(mem) =>
      /\ \A tag \in Tags : Occurrences(mem.tags.elems, tag) <= 1
      /\ lastOp = "AddTag" => Occurrences(mem.tags.elems, call.tag) = 1
      /\ lastOp = "RemoveTag" => Occurrences(mem.tags.elems, call.tag) = 0

\* The query of the tick of loop l returns in this step without an error.
Queries(l) == lpc[l] = "query" /\ lpc'[l] = "loop"

\* The interactive client's last change of task id was a save as Completed.
ClientCompleted(id) ==
    /\ clientLast[id].op = "SaveTask"
    /\ clientLast[id].rec[1].status = TaskStatusCompleted

\* C25: The query of a tick returns no task that is Completed in the tasks
\* file, and the Notifier is not invoked for a task the query found
\* Completed; so the query of a tick that runs after the client has saved a
\* task as Completed, and has not changed it since, does not return the task.
C25_CompletedNotReminded ==
    /\ [][\A l \in LoopIds :
            Queries(l)
            => /\ \A i \in 1 .. Len(due'[l]) :
                    due'[l][i].status # TaskStatusCompleted
               /\ \A i \in 1 .. Len(StoredTasks(tasksFile)) :
                    StoredTasks(tasksFile)[i].status = TaskStatusCompleted
                    => StoredTasks(tasksFile)[i].id \notin Ids(due'[l])]_vars
    /\ [][\A l \in LoopIds :
            Notifies(l) => Head(due[l]).status # TaskStatusCompleted]_vars
    /\ [][\A l \in LoopIds :
            Queries(l)
            => \A id \in TaskIds :
                 ClientCompleted(id) => id \notin Ids(due'[l])]_vars

\* C25, its first part: what the query and the Notifier see of the file.
C25_QueryFilter ==
    /\ [][\A l \in LoopIds :
            Queries(l)
            => /\ \A i \in 1 .. Len(due'[l]) :
                    due'[l][i].status # TaskStatusCompleted
               /\ \A i \in 1 .. Len(StoredTasks(tasksFile)) :
                    StoredTasks(tasksFile)[i].status = TaskStatusCompleted
                    => StoredTasks(tasksFile)[i].id \notin Ids(due'[l])]_vars
    /\ [][\A l \in LoopIds :
            Notifies(l) => Head(due[l]).status # TaskStatusCompleted]_vars

\* C26: A task the client has deleted, and not saved since, is not in the
\* tasks file; and a SaveTask of a tick leaves a task the client has saved
\* with the fields of that save, but for a status the tick's own status check
\* has made Overdue.
C26_TickKeepsClientWrites ==
    /\ [](\A id \in TaskIds :
            clientLast[id].op = "DeleteTask"
            => id \notin Ids(StoredTasks(tasksFile)))
    /\ [][\A l \in LoopIds :
            (lpc[l] = "save" /\ lpc'[l] = "notify" /\ ret'.err = None)
            => \A id \in TaskIds :
                 clientLast[id].op = "SaveTask"
                 => LET c == clientLast[id].rec[1]
                    IN  \A i \in 1 .. Len(StoredTasks(tasksFile')) :
                          StoredTasks(tasksFile')[i].id = id
                          => StoredTasks(tasksFile')[i] \in
                               {c, UpdateStatus(c, clock)}]_vars

\* The record with identifier id in the tasks of a file, as a sequence of
\* at most one record.
Record(file, id) == SelectSeq(StoredTasks(file), LAMBDA x : x.id = id)

\* C27: A tick changes the tasks in the tasks file only in the SaveTask of a
\* task it goes on to notify; that save leaves every other task as it was
\* and changes at most the status of the task; the step that skips a task
\* the ledger suppresses leaves the file as it was, a query that fails
\* leaves the tasks and the ledger as they were, and no step of a tick
\* changes the notes file.
C27_TickFrame ==
    /\ [][StoredTasks(tasksFile') # StoredTasks(tasksFile)
          => \E l \in LoopIds : lpc[l] = "save" /\ lpc'[l] = "notify"]_vars
    /\ [][\A l \in LoopIds :
            (lpc[l] = "save" /\ lpc'[l] = "notify")
            => LET id == Head(due[l]).id
               IN  /\ Without(StoredTasks(tasksFile'), id)
                        = Without(StoredTasks(tasksFile), id)
                   /\ Len(Record(tasksFile', id)) = Len(Record(tasksFile, id))
                   /\ \A i \in 1 .. Len(Record(tasksFile, id)) :
                        [Record(tasksFile', id)[i] EXCEPT !.status = TaskStatusPending]
                          = [Record(tasksFile, id)[i]
                               EXCEPT !.status = TaskStatusPending]]_vars
    /\ [][\A l \in LoopIds :
            (Checks(l) /\ lpc'[l] = "loop") => tasksFile' = tasksFile]_vars
    /\ [][\A l \in LoopIds :
            (lpc[l] = "query" /\ lpc'[l] = "select")
            => /\ StoredTasks(tasksFile') = StoredTasks(tasksFile)
               /\ sentReminders' = sentReminders]_vars
    /\ [][notesFile' = notesFile]_vars

\* C28: Task.Update sets the due date that was passed and keeps the lead of
\* the task: due date minus reminder time is after the call what it was
\* before.
C28_UpdateKeepsLead ==
    [][(lastOp' = "Update" /\ <<mem, lastOp, call>>' # <<mem, lastOp, call>>)
       => /\ mem'.dueDate = call'.dueDate
          /\ mem'.dueDate - mem'.reminderAt = mem.dueDate - mem.reminderAt]_vars

\* C29: MarkInProgress sets the status of the task to InProgress and leaves
\* its other fields as they are; the task is then returned by the due-before
\* query for a time after its due date and by the reminder query for a time
\* after its reminder time.
C29_MarkInProgress ==
    [][(lastOp' = "MarkInProgress" /\ <<mem, lastOp>>' # <<mem, lastOp>>)
       => /\ mem' = [mem EXCEPT !.status = TaskStatusInProgress]
          /\ DueBefore(<<mem'>>, mem'.dueDate + 1) = <<mem'>>
          /\ RemindersBy(<<mem'>>, mem'.reminderAt + 1) = <<mem'>>]_vars

====
